---- MODULE Spec2Model ----
(***************************************************************************)
(* Model of the five-triangle rendering demo: src/src/main.cpp (main,      *)
(* CreateTriangle, DestroyTriangle) and src/src/Window.cpp (CreateWindow,  *)
(* WindowShouldClose, Loop, DestroyWindow).                                *)
(*                                                                         *)
(* The program is one sequential thread.  pc is the statement main is      *)
(* about to execute.  The graphics driver and the windowing library are    *)
(* modelled as a recording mock: gl holds the objects the driver knows and *)
(* a log of the calls made in the current frame, win holds the library     *)
(* and window state.  Every graphics call of the source is an operator     *)
(* that takes the driver state to the driver state after the call, so an   *)
(* action applies the calls of its statement block in source order.        *)
(***************************************************************************)
EXTENDS Integers, Sequences, FiniteSets, TLC

VARIABLES
    pc,       \* the statement of main / CreateWindow executed next
    NDEBUG,   \* build flag: TRUE when <cassert> compiles assert(e) to nothing
    win,      \* gApp.window, the windowing library and the loader
    clock,    \* glfwGetTime() as a double, in ticks
    gl,       \* the graphics driver: objects, bindings, uniforms, call log
    locals,   \* main's local variables
    out,      \* what the process shows outside: stderr lines, and the exit
              \* status as a set, empty until main returns
    tally     \* history: run-long counters, what the polls and the shader build
              \* returned, and each finished frame's time sample and uniforms

vars == <<pc, NDEBUG, win, clock, gl, locals, out, tally>>

-----------------------------------------------------------------------------
(* Bounds of the model.                                                    *)

\* Frames the model lets the loop render before it stops exploring.
MaxFrames == 3
\* Largest advance of the clock, in ticks, between two frames.
MaxDt == 2
\* Significand bits of the scaled-down float that (float)glfwGetTime() rounds to.
MantBits == 2

(* Program constants.                                                      *)

\* glDrawArrays(GL_TRIANGLES, 0, 3): first vertex and vertex count.
DrawFirst == 0
DrawCount == 3
\* glUniform2f(locCenter, 0.0f, -0.68f), in hundredths.
CenterX == 0
CenterY == -68
\* return -1 on the shader-failure path, return 0 at the end of main.
ExitShaderError == -1
ExitOK == 0
\* The null handle: nullptr for gApp.window, 0 for a GL object name.
NULL == 0

\* The five uniforms the shader sources declare and use (main.cpp 15-19, 49-50).
UniformNames == <<"mode", "time", "offset", "angle", "center">>

\* The vertex data literals of main: each is named by the RenderMode it is for.
white == [name |-> "white", floats |-> 15]
rainbow == [name |-> "rainbow", floats |-> 15]
pulsing == [name |-> "pulsing", floats |-> 15]
translating == [name |-> "translating", floats |-> 15]
rotating == [name |-> "rotating", floats |-> 15]

-----------------------------------------------------------------------------
(* Floats.  A double is a natural number of ticks; a float keeps MantBits  *)
(* significant bits and is rounded to nearest, ties to even.               *)

RECURSIVE Pow2(_)
Pow2(n) == IF n = 0 THEN 1 ELSE 2 * Pow2(n - 1)

RECURSIVE Ulp(_, _)
\* The spacing of floats around d: u doubles until d < u * 2^MantBits.
Ulp(d, u) == IF d < u * Pow2(MantBits) THEN u ELSE Ulp(d, 2 * u)

\* (float)d
FloatCast(d) ==
    LET u == Ulp(d, 1)
        q == d \div u
        r == d % u
    IN  IF 2 * r < u THEN q * u
        ELSE IF 2 * r > u THEN (q + 1) * u
        ELSE IF q % 2 = 0 THEN q * u ELSE (q + 1) * u

\* A faulty variant of MulOne that wraps the angle into one turn, as fmodf(t, turn)
\* would, with a turn of 4 ticks.
MulOneWrapped(a) == FloatCast(a * 1) % 4

\* a * 1.0f in float arithmetic: the exact product, rounded to a float.
MulOne(a) == FloatCast(a * 1)

\* sinf(t * 1.2f) * 0.75f, kept symbolic: the expression and its argument.
TranslateAmount(t) == <<"sinf(t*1.2f)*0.75f", t>>

-----------------------------------------------------------------------------
(* The graphics driver as a recording mock.  g is the driver state; every  *)
(* call appends itself to g.log and is counted in g.late when the context  *)
(* it runs in has already been destroyed.                                  *)

Rec(g, op, arg, val) ==
    [g EXCEPT !.log = Append(@, [op |-> op, arg |-> arg, val |-> val]),
              !.late = @ + (IF g.context = "destroyed" THEN 1 ELSE 0)]

\* A call that names object n of the live set: counted in g.stale when n was released.
Stale(g, n, live) ==
    [g EXCEPT !.stale = @ + (IF n # NULL /\ n \notin live THEN 1 ELSE 0)]

\* Deletions of name n so far.
Dels(del, n) == IF n \in DOMAIN del THEN del[n] ELSE 0

\* glGenVertexArrays(1, &name): the driver hands out the next unused name.
FreshVertexArray(g) == g.vaoGen + 1
glGenVertexArrays(g) ==
    Rec([g EXCEPT !.vaoGen = @ + 1, !.vaoLive = @ \cup {FreshVertexArray(g)}],
        "glGenVertexArrays", FreshVertexArray(g), NULL)

\* glGenBuffers(1, &name)
FreshBuffer(g) == g.vboGen + 1
glGenBuffers(g) ==
    Rec([g EXCEPT !.vboGen = @ + 1, !.vboLive = @ \cup {FreshBuffer(g)}],
        "glGenBuffers", FreshBuffer(g), NULL)

glBindVertexArray(g, n) ==
    Rec([Stale(g, n, g.vaoLive) EXCEPT !.boundVAO = n], "glBindVertexArray", n, NULL)

glBindBuffer(g, n) ==
    Rec([Stale(g, n, g.vboLive) EXCEPT !.boundVBO = n], "glBindBuffer", n, NULL)

\* glBufferData(GL_ARRAY_BUFFER, size, data, GL_STATIC_DRAW): fills the bound buffer.
glBufferData(g, data) ==
    Rec([g EXCEPT !.vboData = (g.boundVBO :> data) @@ @, !.uploads = @ + 1],
        "glBufferData", g.boundVBO, data)

glEnableVertexAttribArray(g, index) ==
    Rec([g EXCEPT !.enabled = @ \cup {<<g.boundVAO, index>>}],
        "glEnableVertexAttribArray", index, NULL)

\* glVertexAttribPointer(index, size, GL_FLOAT, GL_FALSE, stride, offset), in floats:
\* the bound vertex array reads attribute index from the bound buffer.
glVertexAttribPointer(g, index, size, stride, offset) ==
    Rec([g EXCEPT !.attribs = @ \cup {[vao |-> g.boundVAO, index |-> index,
                                       size |-> size, stride |-> stride,
                                       offset |-> offset, vbo |-> g.boundVBO]}],
        "glVertexAttribPointer", index, g.boundVBO)

glDeleteBuffers(g, n) ==
    Rec([Stale(g, n, g.vboLive) EXCEPT
            !.vboLive = @ \ {n},
            !.vboDel = (n :> Dels(g.vboDel, n) + 1) @@ @,
            !.boundVBO = IF @ = n THEN NULL ELSE @],
        "glDeleteBuffers", n, NULL)

glDeleteVertexArrays(g, n) ==
    Rec([Stale(g, n, g.vaoLive) EXCEPT
            !.vaoLive = @ \ {n},
            !.vaoDel = (n :> Dels(g.vaoDel, n) + 1) @@ @,
            !.boundVAO = IF @ = n THEN NULL ELSE @],
        "glDeleteVertexArrays", n, NULL)

\* glCreateProgram and the link of the two compiled stages.
FreshProgram(g) == g.progGen + 1
glCreateProgram(g) ==
    Rec([g EXCEPT !.progGen = @ + 1, !.progLive = @ \cup {FreshProgram(g)}],
        "glCreateProgram", FreshProgram(g), NULL)

glDeleteProgram(g, p) ==
    Rec([Stale(g, p, g.progLive) EXCEPT
            !.progLive = @ \ {p},
            !.progDel = (p :> Dels(g.progDel, p) + 1) @@ @],
        "glDeleteProgram", p, NULL)

glUseProgram(g, p) ==
    Rec([Stale(g, p, g.progLive) EXCEPT !.program = p], "glUseProgram", p, NULL)

\* glGetUniformLocation(program, name): the index of an active uniform, else -1.
UniformLocation(g, p, name) ==
    IF p \in g.progLive /\ \E i \in DOMAIN UniformNames : UniformNames[i] = name
    THEN (CHOOSE i \in DOMAIN UniformNames : UniformNames[i] = name) - 1
    ELSE -1
glGetUniformLocation(g, p, name) ==
    Rec(Stale(g, p, g.progLive), "glGetUniformLocation", name, UniformLocation(g, p, name))

\* glUniform1i / glUniform1f / glUniform2f(location, value): sets the uniform at
\* location of the program in use; location -1 and no program are silent no-ops.
SetUniform(g, op, location, value) ==
    Rec(IF g.program \in g.progLive /\ (location + 1) \in DOMAIN UniformNames
        THEN [g EXCEPT !.uniform[UniformNames[location + 1]] = value]
        ELSE Stale(g, g.program, g.progLive),
        op, location, value)
glUniform1i(g, location, v) == SetUniform(g, "glUniform1i", location, v)
glUniform1f(g, location, v) == SetUniform(g, "glUniform1f", location, v)
glUniform2f(g, location, x, y) == SetUniform(g, "glUniform2f", location, <<x, y>>)

glClearColor(g, r, gr, b, a) ==
    Rec([g EXCEPT !.clearColor = <<r, gr, b, a>>], "glClearColor", <<r, gr, b, a>>, NULL)

glClear(g) == Rec(g, "glClear", g.clearColor, NULL)

\* glDrawArrays(GL_TRIANGLES, first, count): the record keeps what the draw reads,
\* the bound vertex array, the program in use and the uniforms at that moment.
glDrawArrays(g, first, count) ==
    Rec(Stale(Stale(g, g.boundVAO, g.vaoLive), g.program, g.progLive),
        "glDrawArrays", <<first, count>>,
        [vao |-> g.boundVAO, program |-> g.program, uniform |-> g.uniform])

\* The driver before any context exists.
NoDriver ==
    [context |-> "none", vaoGen |-> 0, vboGen |-> 0, progGen |-> 0,
     vaoLive |-> {}, vboLive |-> {}, progLive |-> {},
     vaoDel |-> <<>>, vboDel |-> <<>>, progDel |-> <<>>,
     boundVAO |-> NULL, boundVBO |-> NULL, program |-> NULL,
     vboData |-> <<>>, enabled |-> {}, attribs |-> {}, uploads |-> 0,
     uniform |-> [u \in {UniformNames[i] : i \in DOMAIN UniformNames} |-> NULL],
     clearColor |-> <<0, 0, 0, 0>>, stale |-> 0, late |-> 0, log |-> <<>>]

-----------------------------------------------------------------------------
(* main.cpp: the geometry-buffer helpers.                                  *)

\* VAOHandle h; with its default member initialisers.
VAOHandle == [vao |-> NULL, vbo |-> NULL]

\* CreateTriangle(interleavedData): the driver afterwards, and the handle returned.
CreateTriangle(g, interleavedData) ==
    LET g1 == glGenVertexArrays(g)
        vao == FreshVertexArray(g)
        g2 == glGenBuffers(g1)
        vbo == FreshBuffer(g1)
        g3 == glBindVertexArray(g2, vao)
        g4 == glBindBuffer(g3, vbo)
        g5 == glBufferData(g4, interleavedData)
        g6 == glEnableVertexAttribArray(g5, 0)
        g7 == glVertexAttribPointer(g6, 0, 2, 5, 0)
        g8 == glEnableVertexAttribArray(g7, 1)
        g9 == glVertexAttribPointer(g8, 1, 3, 5, 2)
        g10 == glBindBuffer(g9, NULL)
        g11 == glBindVertexArray(g10, NULL)
    IN  [gl |-> g11, h |-> [vao |-> vao, vbo |-> vbo]]

\* A faulty variant of DestroyTriangle that releases the vertex buffer only and
\* leaks the vertex array.
DestroyTriangleLeaksVao(g, h) ==
    LET g1 == IF h.vbo # NULL THEN glDeleteBuffers(g, h.vbo) ELSE g
    IN  [gl |-> g1, h |-> [vao |-> NULL, vbo |-> NULL]]

\* DestroyTriangle(h): the driver afterwards, and h as the call leaves it.
DestroyTriangle(g, h) ==
    LET g1 == IF h.vbo # NULL THEN glDeleteBuffers(g, h.vbo) ELSE g
        g2 == IF h.vao # NULL THEN glDeleteVertexArrays(g1, h.vao) ELSE g1
    IN  [gl |-> g2, h |-> [vao |-> NULL, vbo |-> NULL]]

-----------------------------------------------------------------------------
(* Shader.h / Shader.cpp are not among the sources: the Shader class is    *)
(* modelled from its contract in the specification.                        *)

\* shader.CreateFromSource(vertexSrc, fragmentSrc, err) when it succeeds and when it
\* fails: a failure leaves no program and a diagnostic in err.
ShaderCreateFromSource(g, ok) ==
    IF ok
    THEN [gl |-> glCreateProgram(g), id |-> FreshProgram(g), err |-> "", result |-> TRUE]
    ELSE [gl |-> g, id |-> NULL, err |-> "diagnostic", result |-> FALSE]

\* shader.Use()
ShaderUse(g, id) == glUseProgram(g, id)

\* shader.GetID()
ShaderGetID(id) == id

\* shader.Destroy()
ShaderDestroy(g, id) == IF id # NULL THEN glDeleteProgram(g, id) ELSE g

-----------------------------------------------------------------------------
(* Window.cpp                                                              *)

\* assert(e) of <cassert>: with NDEBUG the expression is not evaluated at all.
AssertEvaluates == ~NDEBUG

\* The library before glfwInit.
NoWindow ==
    [window |-> NULL, inited |-> FALSE, current |-> FALSE, loaded |-> FALSE,
     shouldClose |-> FALSE, terminated |-> 0, swaps |-> 0, late |-> 0]

\* A call into the windowing library: counted when made after glfwTerminate.
WinCall(w) == [w EXCEPT !.late = @ + (IF w.terminated > 0 THEN 1 ELSE 0)]

\* CreateWindow, line 14: assert(glfwInit() == GLFW_TRUE).
CreateWindowInit ==
    /\ pc = "CreateWindow:14"
    /\ IF AssertEvaluates
       THEN \E ok \in BOOLEAN :
               /\ win' = [win EXCEPT !.inited = ok]
               /\ pc' = IF ok THEN "CreateWindow:17" ELSE "aborted"
       ELSE /\ win' = win
            /\ pc' = "CreateWindow:17"
    /\ tally' = [tally EXCEPT !.initOps = @ + 1]
    /\ UNCHANGED <<NDEBUG, clock, gl, locals, out>>

\* CreateWindow, lines 17-23: the hints, glfwCreateWindow, assert(window != nullptr).
\* glfwCreateWindow returns NULL when the library is not initialised or the platform
\* refuses; the platform may deliver a close request while the window is made.
CreateWindowWindow ==
    /\ pc = "CreateWindow:17"
    /\ \E made \in BOOLEAN, close \in BOOLEAN, d \in 1..MaxDt :
          LET window == IF win.inited /\ made THEN 1 ELSE NULL
          IN  /\ win' = [win EXCEPT !.window = window,
                                    !.shouldClose = (window # NULL /\ close)]
              /\ clock' = IF win.inited THEN clock + d ELSE clock
              /\ pc' = IF AssertEvaluates /\ window = NULL
                       THEN "aborted" ELSE "CreateWindow:26"
    /\ tally' = [tally EXCEPT !.initOps = @ + 1]
    /\ UNCHANGED <<NDEBUG, gl, locals, out>>

\* CreateWindow, lines 26-29: glfwMakeContextCurrent, assert(gladLoadGLLoader(...)).
\* The loader can only succeed with a current context.
CreateWindowLoad ==
    /\ pc = "CreateWindow:26"
    /\ \E ok \in BOOLEAN :
          LET current == win.window # NULL
              loaded == AssertEvaluates /\ current /\ ok
          IN  /\ win' = [win EXCEPT !.current = current, !.loaded = loaded]
              /\ gl' = [gl EXCEPT !.context = IF current THEN "current" ELSE @]
              /\ pc' = IF AssertEvaluates /\ ~loaded THEN "aborted" ELSE "main:107"
    /\ tally' = [tally EXCEPT !.initOps = @ + 1]
    /\ UNCHANGED <<NDEBUG, clock, locals, out>>

\* WindowShouldClose()
WindowShouldClose(w) == w.shouldClose

\* DestroyWindow(): glfwTerminate destroys the window and its context.
DestroyWindow ==
    /\ win' = [WinCall(win) EXCEPT !.terminated = @ + 1, !.window = NULL,
                                   !.current = FALSE]
    /\ gl' = [gl EXCEPT !.context = IF @ = "current" THEN "destroyed" ELSE @]

-----------------------------------------------------------------------------
(* main.cpp: main, one action per statement block.                         *)

\* Lines 107-109: Shader shader; std::string err; shader.CreateFromSource(...).
\* Without loaded graphics functions the first graphics call goes through a null
\* function pointer and the process is killed.
ShaderCreate ==
    /\ pc = "main:107"
    /\ IF ~win.loaded
       THEN /\ pc' = "crashed"
            /\ tally' = [tally EXCEPT !.initOps = @ + 1]
            /\ UNCHANGED <<gl, locals>>
       ELSE \E ok \in BOOLEAN :
               LET r == ShaderCreateFromSource(gl, ok)
               IN  /\ gl' = r.gl
                   /\ locals' = [locals EXCEPT !.shader = r.id, !.err = r.err]
                   /\ pc' = IF ~r.result THEN "main:110" ELSE "main:158"
                   /\ tally' = [tally EXCEPT
                                   !.initOps = @ + 1,
                                   !.shaderOK = IF r.result THEN "ok" ELSE "failed"]
    /\ UNCHANGED <<NDEBUG, win, clock, out>>

\* A faulty variant of ShaderFailed without the return: it reports, destroys the
\* window and goes on to create the geometry.
ShaderFailedFallsThrough ==
    /\ pc = "main:110"
    /\ out' = [out EXCEPT !.stderr = Append(@, <<"Shader compile/link error:", locals.err>>)]
    /\ DestroyWindow
    /\ pc' = "main:158"
    /\ UNCHANGED <<NDEBUG, clock, locals, tally>>

\* Lines 110-112: the failure branch: report err, DestroyWindow(), return -1.
ShaderFailed ==
    /\ pc = "main:110"
    /\ out' = [out EXCEPT !.stderr = Append(@, <<"Shader compile/link error:", locals.err>>),
                          !.exit = {ExitShaderError}]
    /\ DestroyWindow
    /\ pc' = "returned"
    /\ UNCHANGED <<NDEBUG, clock, locals, tally>>

\* Lines 158-162: the five CreateTriangle calls.
CreateWhite ==
    /\ pc = "main:158"
    /\ LET r == CreateTriangle(gl, white)
       IN  gl' = r.gl /\ locals' = [locals EXCEPT !.vaoWhite = r.h]
    /\ tally' = [tally EXCEPT !.initOps = @ + 1]
    /\ pc' = "main:159"
    /\ UNCHANGED <<NDEBUG, win, clock, out>>

CreateRainbow ==
    /\ pc = "main:159"
    /\ LET r == CreateTriangle(gl, rainbow)
       IN  gl' = r.gl /\ locals' = [locals EXCEPT !.vaoRainbow = r.h]
    /\ tally' = [tally EXCEPT !.initOps = @ + 1]
    /\ pc' = "main:160"
    /\ UNCHANGED <<NDEBUG, win, clock, out>>

CreatePulsing ==
    /\ pc = "main:160"
    /\ LET r == CreateTriangle(gl, pulsing)
       IN  gl' = r.gl /\ locals' = [locals EXCEPT !.vaoPulsing = r.h]
    /\ tally' = [tally EXCEPT !.initOps = @ + 1]
    /\ pc' = "main:161"
    /\ UNCHANGED <<NDEBUG, win, clock, out>>

CreateTrans ==
    /\ pc = "main:161"
    /\ LET r == CreateTriangle(gl, translating)
       IN  gl' = r.gl /\ locals' = [locals EXCEPT !.vaoTrans = r.h]
    /\ tally' = [tally EXCEPT !.initOps = @ + 1]
    /\ pc' = "main:162"
    /\ UNCHANGED <<NDEBUG, win, clock, out>>

CreateRot ==
    /\ pc = "main:162"
    /\ LET r == CreateTriangle(gl, rotating)
       IN  gl' = r.gl /\ locals' = [locals EXCEPT !.vaoRot = r.h]
    /\ tally' = [tally EXCEPT !.initOps = @ + 1]
    /\ pc' = "main:165"
    /\ UNCHANGED <<NDEBUG, win, clock, out>>

\* Lines 165-170: shader.Use() and the five glGetUniformLocation calls.
GetUniformLocations ==
    /\ pc = "main:165"
    /\ LET id == ShaderGetID(locals.shader)
           g1 == ShaderUse(gl, locals.shader)
           g2 == glGetUniformLocation(g1, id, "mode")
           g3 == glGetUniformLocation(g2, id, "time")
           g4 == glGetUniformLocation(g3, id, "offset")
           g5 == glGetUniformLocation(g4, id, "angle")
           g6 == glGetUniformLocation(g5, id, "center")
       IN  /\ gl' = g6
           /\ locals' = [locals EXCEPT !.locMode = UniformLocation(g1, id, "mode"),
                                       !.locTime = UniformLocation(g2, id, "time"),
                                       !.locOffset = UniformLocation(g3, id, "offset"),
                                       !.locAngle = UniformLocation(g4, id, "angle"),
                                       !.locCenter = UniformLocation(g5, id, "center")]
    /\ pc' = "main:173"
    /\ UNCHANGED <<NDEBUG, win, clock, out, tally>>

\* A faulty variant of LoopEnter whose loop condition does not look at the close
\* signal: a frame starts whatever the poll returned.
LoopEnterIgnoresClose ==
    /\ pc = "main:173"
    /\ tally.frames < MaxFrames
    /\ win' = WinCall(win)
    /\ gl' = [gl EXCEPT !.log = <<>>]
    /\ tally' = [tally EXCEPT !.polls = @ + 1, !.frames = @ + 1,
                              !.pollResults = Append(@, WindowShouldClose(win))]
    /\ pc' = "main:175"
    /\ UNCHANGED <<NDEBUG, clock, locals, out>>

\* Line 173: while (!WindowShouldClose()), the poll that lets a frame start.  The
\* call log is per frame: it restarts here.
LoopEnter ==
    /\ pc = "main:173"
    /\ ~WindowShouldClose(win)
    /\ tally.frames < MaxFrames
    /\ win' = WinCall(win)
    /\ gl' = [gl EXCEPT !.log = <<>>]
    /\ tally' = [tally EXCEPT !.polls = @ + 1, !.frames = @ + 1,
                              !.pollResults = Append(@, WindowShouldClose(win))]
    /\ pc' = "main:175"
    /\ UNCHANGED <<NDEBUG, clock, locals, out>>

\* Line 173: the poll that ends the loop.
LoopExit ==
    /\ pc = "main:173"
    /\ WindowShouldClose(win)
    /\ win' = WinCall(win)
    /\ tally' = [tally EXCEPT !.polls = @ + 1,
                              !.pollResults = Append(@, WindowShouldClose(win))]
    /\ pc' = "main:231"
    /\ UNCHANGED <<NDEBUG, clock, gl, locals, out>>

\* Lines 175-185: clear, shader.Use(), t = (float)glfwGetTime(), the time uniform.
FrameBegin ==
    /\ pc = "main:175"
    /\ LET g1 == glClearColor(gl, <<239, 255>>, <<136, 255>>, <<190, 255>>, 1)
           g2 == glClear(g1)
           g3 == ShaderUse(g2, locals.shader)
           t == FloatCast(clock)
           g4 == glUniform1f(g3, locals.locTime, t)
       IN  /\ gl' = g4
           /\ locals' = [locals EXCEPT !.t = t]
    /\ win' = WinCall(win)
    /\ tally' = [tally EXCEPT !.clears = @ + 1]
    /\ pc' = "main:188"
    /\ UNCHANGED <<NDEBUG, clock, out>>

\* A faulty variant of DrawWhite that also sets the offset uniform, which belongs
\* to the translating triangle.
DrawWhiteWritesOffset ==
    /\ pc = "main:188"
    /\ LET g1 == glUniform1i(gl, locals.locMode, 0)
           g2 == glUniform2f(g1, locals.locOffset, TranslateAmount(locals.t), 0)
           g3 == glBindVertexArray(g2, locals.vaoWhite.vao)
           g4 == glDrawArrays(g3, DrawFirst, DrawCount)
       IN  gl' = g4
    /\ tally' = [tally EXCEPT !.draws = @ + 1]
    /\ pc' = "main:193"
    /\ UNCHANGED <<NDEBUG, win, clock, locals, out>>

\* Lines 188-190: 1) white.
DrawWhite ==
    /\ pc = "main:188"
    /\ LET g1 == glUniform1i(gl, locals.locMode, 0)
           g2 == glBindVertexArray(g1, locals.vaoWhite.vao)
           g3 == glDrawArrays(g2, DrawFirst, DrawCount)
       IN  gl' = g3
    /\ tally' = [tally EXCEPT !.draws = @ + 1]
    /\ pc' = "main:193"
    /\ UNCHANGED <<NDEBUG, win, clock, locals, out>>

\* A faulty variant of DrawRainbow that forgets glUniform1i(locMode, 1): the draw
\* runs with the tag the previous draw left.
DrawRainbowStaleMode ==
    /\ pc = "main:193"
    /\ LET g2 == glBindVertexArray(gl, locals.vaoRainbow.vao)
           g3 == glDrawArrays(g2, DrawFirst, DrawCount)
       IN  gl' = g3
    /\ tally' = [tally EXCEPT !.draws = @ + 1]
    /\ pc' = "main:198"
    /\ UNCHANGED <<NDEBUG, win, clock, locals, out>>

\* Lines 193-195: 2) rainbow.
DrawRainbow ==
    /\ pc = "main:193"
    /\ LET g1 == glUniform1i(gl, locals.locMode, 1)
           g2 == glBindVertexArray(g1, locals.vaoRainbow.vao)
           g3 == glDrawArrays(g2, DrawFirst, DrawCount)
       IN  gl' = g3
    /\ tally' = [tally EXCEPT !.draws = @ + 1]
    /\ pc' = "main:198"
    /\ UNCHANGED <<NDEBUG, win, clock, locals, out>>

\* A faulty variant of DrawPulsing that binds vaoRainbow again (a copied block
\* left unedited): rainbow is drawn twice and pulsing is skipped.
DrawPulsingBindsRainbow ==
    /\ pc = "main:198"
    /\ LET g1 == glUniform1i(gl, locals.locMode, 2)
           g2 == glBindVertexArray(g1, locals.vaoRainbow.vao)
           g3 == glDrawArrays(g2, DrawFirst, DrawCount)
       IN  gl' = g3
    /\ tally' = [tally EXCEPT !.draws = @ + 1]
    /\ pc' = "main:204"
    /\ UNCHANGED <<NDEBUG, win, clock, locals, out>>

\* Lines 198-200: 3) pulsing color.
DrawPulsing ==
    /\ pc = "main:198"
    /\ LET g1 == glUniform1i(gl, locals.locMode, 2)
           g2 == glBindVertexArray(g1, locals.vaoPulsing.vao)
           g3 == glDrawArrays(g2, DrawFirst, DrawCount)
       IN  gl' = g3
    /\ tally' = [tally EXCEPT !.draws = @ + 1]
    /\ pc' = "main:204"
    /\ UNCHANGED <<NDEBUG, win, clock, locals, out>>

\* Lines 204-209: 4) translating.
DrawTrans ==
    /\ pc = "main:204"
    /\ LET g1 == glUniform1i(gl, locals.locMode, 3)
           translateAmount == TranslateAmount(locals.t)
           g2 == glUniform2f(g1, locals.locOffset, translateAmount, 0)
           g3 == glBindVertexArray(g2, locals.vaoTrans.vao)
           g4 == glDrawArrays(g3, DrawFirst, DrawCount)
       IN  gl' = g4
    /\ tally' = [tally EXCEPT !.draws = @ + 1]
    /\ pc' = "main:212"
    /\ UNCHANGED <<NDEBUG, win, clock, locals, out>>

\* Lines 212-222: 5) rotating.
DrawRot ==
    /\ pc = "main:212"
    /\ LET g1 == glUniform1i(gl, locals.locMode, 4)
           ang == MulOne(locals.t)
           g2 == glUniform1f(g1, locals.locAngle, ang)
           g3 == glUniform2f(g2, locals.locCenter, CenterX, CenterY)
           g4 == glBindVertexArray(g3, locals.vaoRot.vao)
           g5 == glDrawArrays(g4, DrawFirst, DrawCount)
       IN  gl' = g5
    /\ tally' = [tally EXCEPT !.draws = @ + 1]
    /\ pc' = "main:225"
    /\ UNCHANGED <<NDEBUG, win, clock, locals, out>>

\* A faulty variant of FrameEnd whose loop starts above the uniform lookups: after
\* each frame control goes back to line 165.
FrameEndRepeatsLookup ==
    /\ pc = "main:225"
    /\ \E close \in BOOLEAN, d \in 1..MaxDt :
          /\ win' = [WinCall(WinCall(win)) EXCEPT !.swaps = @ + 1,
                                                  !.shouldClose = @ \/ close]
          /\ clock' = clock + d
    /\ gl' = glBindVertexArray(gl, NULL)
    /\ tally' = [tally EXCEPT !.presents = @ + 1,
                              !.samples = Append(@, [clock |-> clock, t |-> locals.t,
                                                     time |-> gl.uniform["time"],
                                                     angle |-> gl.uniform["angle"]])]
    /\ pc' = "main:165"
    /\ UNCHANGED <<NDEBUG, locals, out>>

\* Lines 225-227: glBindVertexArray(0); Loop(): glfwSwapBuffers, glfwPollEvents.
\* Polling may deliver the user's close request; time passes while the frame is
\* presented.  The frame's time sample and uniforms go to the history.
FrameEnd ==
    /\ pc = "main:225"
    /\ \E close \in BOOLEAN, d \in 1..MaxDt :
          /\ win' = [WinCall(WinCall(win)) EXCEPT !.swaps = @ + 1,
                                                  !.shouldClose = @ \/ close]
          /\ clock' = clock + d
    /\ gl' = glBindVertexArray(gl, NULL)
    /\ tally' = [tally EXCEPT !.presents = @ + 1,
                              !.samples = Append(@, [clock |-> clock, t |-> locals.t,
                                                     time |-> gl.uniform["time"],
                                                     angle |-> gl.uniform["angle"]])]
    /\ pc' = "main:173"
    /\ UNCHANGED <<NDEBUG, locals, out>>

\* Lines 231-235: the five DestroyTriangle calls.
DestroyWhite ==
    /\ pc = "main:231"
    /\ LET r == DestroyTriangle(gl, locals.vaoWhite)
       IN  gl' = r.gl /\ locals' = [locals EXCEPT !.vaoWhite = r.h]
    /\ pc' = "main:232"
    /\ UNCHANGED <<NDEBUG, win, clock, out, tally>>

DestroyRainbow ==
    /\ pc = "main:232"
    /\ LET r == DestroyTriangle(gl, locals.vaoRainbow)
       IN  gl' = r.gl /\ locals' = [locals EXCEPT !.vaoRainbow = r.h]
    /\ pc' = "main:233"
    /\ UNCHANGED <<NDEBUG, win, clock, out, tally>>

DestroyPulsing ==
    /\ pc = "main:233"
    /\ LET r == DestroyTriangle(gl, locals.vaoPulsing)
       IN  gl' = r.gl /\ locals' = [locals EXCEPT !.vaoPulsing = r.h]
    /\ pc' = "main:234"
    /\ UNCHANGED <<NDEBUG, win, clock, out, tally>>

DestroyTrans ==
    /\ pc = "main:234"
    /\ LET r == DestroyTriangle(gl, locals.vaoTrans)
       IN  gl' = r.gl /\ locals' = [locals EXCEPT !.vaoTrans = r.h]
    /\ pc' = "main:235"
    /\ UNCHANGED <<NDEBUG, win, clock, out, tally>>

DestroyRot ==
    /\ pc = "main:235"
    /\ LET r == DestroyTriangle(gl, locals.vaoRot)
       IN  gl' = r.gl /\ locals' = [locals EXCEPT !.vaoRot = r.h]
    /\ pc' = "main:237"
    /\ UNCHANGED <<NDEBUG, win, clock, out, tally>>

\* A faulty variant of ShaderDestroyed with lines 237 and 238 in the other order:
\* the window and its context are destroyed, then the program is released.
ShaderDestroyedAfterWindow ==
    /\ pc = "main:237"
    /\ win' = [WinCall(win) EXCEPT !.terminated = @ + 1, !.window = NULL,
                                   !.current = FALSE]
    /\ gl' = ShaderDestroy([gl EXCEPT !.context = "destroyed"], locals.shader)
    /\ locals' = [locals EXCEPT !.shader = NULL]
    /\ pc' = "main:239"
    /\ UNCHANGED <<NDEBUG, clock, out, tally>>

\* Line 237: shader.Destroy().
ShaderDestroyed ==
    /\ pc = "main:237"
    /\ gl' = ShaderDestroy(gl, locals.shader)
    /\ locals' = [locals EXCEPT !.shader = NULL]
    /\ pc' = "main:238"
    /\ UNCHANGED <<NDEBUG, win, clock, out, tally>>

\* Line 238: DestroyWindow().
WindowDestroyed ==
    /\ pc = "main:238"
    /\ DestroyWindow
    /\ pc' = "main:239"
    /\ UNCHANGED <<NDEBUG, clock, locals, out, tally>>

\* Line 239: return 0.
ReturnOK ==
    /\ pc = "main:239"
    /\ out' = [out EXCEPT !.exit = {ExitOK}]
    /\ pc' = "returned"
    /\ UNCHANGED <<NDEBUG, win, clock, gl, locals, tally>>

-----------------------------------------------------------------------------
\* Before main: either build of the program, nothing created yet.
Init ==
    /\ pc = "CreateWindow:14"
    /\ NDEBUG \in BOOLEAN
    /\ win = NoWindow
    /\ clock = 0
    /\ gl = NoDriver
    /\ locals = [shader |-> NULL, err |-> "",
                 vaoWhite |-> VAOHandle, vaoRainbow |-> VAOHandle,
                 vaoPulsing |-> VAOHandle, vaoTrans |-> VAOHandle, vaoRot |-> VAOHandle,
                 locMode |-> -1, locTime |-> -1, locOffset |-> -1,
                 locAngle |-> -1, locCenter |-> -1, t |-> 0]
    /\ out = [stderr |-> <<>>, exit |-> {}]
    /\ tally = [initOps |-> 0, shaderOK |-> "none", polls |-> 0, pollResults |-> <<>>,
                frames |-> 0, clears |-> 0, draws |-> 0, presents |-> 0,
                samples |-> <<>>]

Next ==
    \/ CreateWindowInit \/ CreateWindowWindow \/ CreateWindowLoad
    \/ ShaderCreate \/ ShaderFailed
    \/ CreateWhite \/ CreateRainbow \/ CreatePulsing \/ CreateTrans \/ CreateRot
    \/ GetUniformLocations
    \/ LoopEnter \/ LoopExit
    \/ FrameBegin
    \/ DrawWhite \/ DrawRainbow \/ DrawPulsing \/ DrawTrans \/ DrawRot
    \/ FrameEnd
    \/ DestroyWhite \/ DestroyRainbow \/ DestroyPulsing \/ DestroyTrans \/ DestroyRot
    \/ ShaderDestroyed \/ WindowDestroyed \/ ReturnOK

Spec == Init /\ [][Next]_vars

\* The program has stopped: main returned, the process was killed, or the model
\* stops exploring a loop that is still running with no close request.
Halted ==
    \/ pc \in {"returned", "aborted", "crashed"}
    \/ pc = "main:173" /\ ~WindowShouldClose(win) /\ tally.frames >= MaxFrames

\* Next can take a step exactly when the program has not stopped.
HaltedIffDisabled == Halted <=> ~ENABLED Next

\* The program is one thread that always executes its next statement: weak
\* fairness of Next.  WF_vars(Next) is []<>(~ENABLED <<Next>>_vars \/ <<Next>>_vars);
\* it is written here with Halted for ~ENABLED <<Next>>_vars (HaltedIffDisabled; every
\* step of Next changes pc), and with []<> distributed over the disjunction.
FairSpec == Spec /\ ([]<>Halted \/ []<><<Next>>_vars)

-----------------------------------------------------------------------------
(* What the claims speak of.                                               *)

\* The statements of the render loop: the poll and the body of a frame.
FramePcs == {"main:175", "main:188", "main:193", "main:198", "main:204", "main:212",
             "main:225"}
InLoop == pc \in FramePcs \cup {"main:173"}

\* The five geometry buffers in the order main creates them, and the RenderMode
\* tag of each: 0 Static, 1 PerVertexColor, 2 PulsingColor, 3 Translating, 4 Rotating.
Buffers == <<locals.vaoWhite, locals.vaoRainbow, locals.vaoPulsing, locals.vaoTrans,
             locals.vaoRot>>
RenderModeTag == <<0, 1, 2, 3, 4>>

IsDraw(e) == e.op = "glDrawArrays"
IsUniformWrite(e) == e.op \in {"glUniform1i", "glUniform1f", "glUniform2f"}
Draws(log) == SelectSeq(log, IsDraw)

\* Draw calls a frame has issued when control is at pc.
DrawsIssuedAt ==
    CASE pc \in {"main:175", "main:188"} -> 0
      [] pc = "main:193" -> 1
      [] pc = "main:198" -> 2
      [] pc = "main:204" -> 3
      [] pc = "main:212" -> 4
      [] pc = "main:225" -> 5
      [] pc = "main:173" -> IF tally.frames > 0 THEN 5 ELSE 0
      [] OTHER -> 0

\* C1: every frame issues exactly five draw calls, the k-th one from the k-th
\* geometry buffer (white, rainbow, pulsing, translating, rotating), each for 3
\* vertices from vertex 0 with that buffer's vertex array bound; the five vertex
\* arrays are distinct, so no buffer is drawn twice or skipped, and over the run
\* the draw calls number five per presented frame.
C1_FiveDrawsPerFrame ==
    LET d == Draws(gl.log)
    IN  /\ tally.draws = 5 * tally.presents + (IF pc \in FramePcs THEN Len(d) ELSE 0)
        /\ InLoop =>
             /\ Len(d) = DrawsIssuedAt
             /\ Cardinality({Buffers[k].vao : k \in 1..5}) = 5
             /\ \A k \in 1..Len(d) :
                   /\ d[k].arg = <<0, 3>>
                   /\ d[k].val.vao = Buffers[k].vao
                   /\ d[k].val.vao \in gl.vaoLive

\* A second frame has been presented, with its five draws in the log.
C1_Witness ==
    pc = "main:173" /\ tally.presents = 2 /\ Len(Draws(gl.log)) = 5

\* C2: in every frame the buffers are drawn in the order white, rainbow, pulsing,
\* translating, rotating, and at the moment of each draw call the mode uniform of
\* the program in use holds the RenderMode tag of the buffer being drawn.
C2_ModeTagAtEveryDraw ==
    InLoop =>
        LET d == Draws(gl.log)
        IN  \A k \in 1..Len(d) :
                /\ k <= 5
                /\ d[k].val.vao = Buffers[k].vao
                /\ d[k].val.program = locals.shader
                /\ d[k].val.program \in gl.progLive
                /\ d[k].val.uniform["mode"] = RenderModeTag[k]

\* The white draw of a second frame is done: the previous frame left mode at 4.
C2_Witness ==
    /\ pc = "main:193" /\ tally.frames = 2
    /\ Draws(gl.log)[1].val.uniform["mode"] = 0

\* C3: once CreateFromSource has reported failure, main only reports and leaves:
\* no geometry buffer is created, no uniform location is queried, the loop is never
\* polled or entered, and main returns a non-zero status with the diagnostic on
\* the error stream and the window destroyed.
C3_ShaderFailureExits ==
    tally.shaderOK = "failed" =>
        /\ pc \in {"main:110", "returned"}
        /\ gl.vaoGen = 0 /\ gl.vboGen = 0 /\ gl.uploads = 0
        /\ \A i \in DOMAIN gl.log : gl.log[i].op # "glGetUniformLocation"
        /\ tally.polls = 0 /\ tally.frames = 0 /\ tally.clears = 0
        /\ tally.draws = 0 /\ tally.presents = 0 /\ win.swaps = 0
        /\ pc = "main:110" => out.stderr = <<>> /\ win.terminated = 0
        /\ pc = "returned" =>
              /\ locals.err # ""
              /\ out.stderr = << <<"Shader compile/link error:", locals.err>> >>
              /\ out.exit # {} /\ 0 \notin out.exit
              /\ win.terminated = 1 /\ win.window = NULL

\* main has returned after a failed shader build.
C3_Witness ==
    pc = "returned" /\ tally.shaderOK = "failed" /\ out.exit = {ExitShaderError}

\* C4: whenever control is back in main after CreateWindow, the library was
\* initialised, the window exists and the graphics functions are loaded; in every
\* build a failure of one of the three aborts inside CreateWindow instead.
C4_AbortsInsideCreateWindow ==
    pc = "main:107" => win.inited /\ win.window # NULL /\ win.loaded

\* C5: no call ever names a released handle, nothing is released twice, and when
\* main has returned every vertex array, vertex buffer and program the run created
\* has been released exactly once: five of each kind of geometry object and one
\* program on the normal path, none on the shader-failure path.
C5_ReleasedExactlyOnce ==
    /\ gl.stale = 0
    /\ \A n \in DOMAIN gl.vaoDel : gl.vaoDel[n] = 1
    /\ \A n \in DOMAIN gl.vboDel : gl.vboDel[n] = 1
    /\ \A n \in DOMAIN gl.progDel : gl.progDel[n] = 1
    /\ pc = "returned" =>
          /\ gl.vaoLive = {} /\ gl.vboLive = {} /\ gl.progLive = {}
          /\ DOMAIN gl.vaoDel = 1..gl.vaoGen
          /\ DOMAIN gl.vboDel = 1..gl.vboGen
          /\ DOMAIN gl.progDel = 1..gl.progGen
          /\ gl.vaoGen = (IF tally.shaderOK = "ok" THEN 5 ELSE 0)
          /\ gl.vboGen = gl.vaoGen
          /\ gl.progGen = (IF tally.shaderOK = "ok" THEN 1 ELSE 0)
          /\ \A k \in 1..5 : Buffers[k] = [vao |-> NULL, vbo |-> NULL]
          /\ locals.shader = NULL

\* main has returned from the normal path after rendering, everything released.
C5_Witness ==
    /\ pc = "returned" /\ tally.presents >= 1
    /\ gl.vaoGen = 5 /\ DOMAIN gl.vboDel = 1..5 /\ DOMAIN gl.progDel = {1}

\* C6: DestroyWindow runs at most once, exactly once when main has returned, no
\* graphics or window call is made after it, and when it runs every object the
\* run created has already been released.
C6_DestroyWindowLast ==
    /\ win.terminated <= 1
    /\ gl.late = 0 /\ win.late = 0
    /\ win.terminated = 1 =>
          /\ pc \in {"main:239", "returned"}
          /\ gl.vaoLive = {} /\ gl.vboLive = {} /\ gl.progLive = {}
          /\ gl.context = "destroyed"
    /\ pc = "returned" => win.terminated = 1

\* The window has just been destroyed on the normal path, after the releases.
C6_Witness ==
    /\ pc = "main:239" /\ win.terminated = 1
    /\ DOMAIN gl.vaoDel = 1..5 /\ DOMAIN gl.progDel = {1}

\* The statements in program order, for telling a jump backwards.
PcOrder == <<"CreateWindow:14", "CreateWindow:17", "CreateWindow:26", "main:107",
             "main:110", "main:158", "main:159", "main:160", "main:161", "main:162",
             "main:165", "main:173", "main:175", "main:188", "main:193", "main:198",
             "main:204", "main:212", "main:225", "main:231", "main:232", "main:233",
             "main:234", "main:235", "main:237", "main:238", "main:239", "returned",
             "aborted", "crashed">>
Rank(p) == CHOOSE i \in DOMAIN PcOrder : PcOrder[i] = p

\* The Scene Driver's lifecycle state at a control point.  Initialized is the
\* moment between the end of initialisation and the first poll; the teardown of
\* the shader-failure branch counts as shutting down; a process killed by abort()
\* or by a fault is Killed.
Phase ==
    CASE pc \in {"CreateWindow:14", "CreateWindow:17", "CreateWindow:26", "main:107",
                 "main:158", "main:159", "main:160", "main:161", "main:162",
                 "main:165"} -> "Uninitialized"
      [] pc = "main:173" /\ tally.polls = 0 -> "Initialized"
      [] pc = "main:173" /\ tally.polls > 0 -> "Running"
      [] pc \in FramePcs -> "Running"
      [] pc \in {"main:110", "main:231", "main:232", "main:233", "main:234",
                 "main:235", "main:237", "main:238", "main:239"} -> "ShuttingDown"
      [] pc = "returned" -> "Terminated"
      [] OTHER -> "Killed"

ListedTransitions ==
    {<<"Uninitialized", "Initialized">>, <<"Initialized", "Running">>,
     <<"Running", "ShuttingDown">>, <<"ShuttingDown", "Terminated">>}

\* Window, shader program and the five uploaded geometry buffers all exist.
AllReady ==
    /\ win.window # NULL /\ win.loaded
    /\ locals.shader \in gl.progLive
    /\ Cardinality({Buffers[k].vao : k \in 1..5}) = 5
    /\ Cardinality({Buffers[k].vbo : k \in 1..5}) = 5
    /\ \A k \in 1..5 :
          /\ Buffers[k].vao \in gl.vaoLive
          /\ Buffers[k].vbo \in gl.vboLive
          /\ Buffers[k].vbo \in DOMAIN gl.vboData

\* What initialisation makes: the counts no later step may change.
InitMade == <<tally.initOps, gl.vaoGen, gl.vboGen, gl.progGen, gl.uploads>>

\* C7 as stated: the lifecycle moves only along Uninitialized -> Initialized ->
\* Running -> ShuttingDown -> Terminated (a process that is killed aside).
C7_OnlyListedTransitions ==
    [][Phase' = Phase \/ <<Phase, Phase'>> \in ListedTransitions
       \/ Phase' = "Killed"]_vars

\* C7, amended: the lifecycle only moves forward along Uninitialized ->
\* Initialized -> Running -> ShuttingDown -> Terminated, but it may skip states:
\* a failed shader build goes from Uninitialized straight to the teardown, a close
\* request already present at the first poll goes from Initialized to ShuttingDown
\* without a frame, and abort() or a fault kills the process while Uninitialized.
\* Initialized and Running are reached only with the window, the program and the
\* five buffers ready; once the first frame has started or shutdown has begun no
\* initialisation happens; control only ever jumps backwards from Running to
\* Running.
C7_LifecycleForwardOnly ==
    /\ [](Phase \in {"Initialized", "Running"} => AllReady)
    /\ [][/\ \/ Phase' = Phase
             \/ <<Phase, Phase'>> \in ListedTransitions
             \/ /\ <<Phase, Phase'>> = <<"Uninitialized", "ShuttingDown">>
                /\ tally'.shaderOK = "failed"
             \/ /\ <<Phase, Phase'>> = <<"Initialized", "ShuttingDown">>
                /\ WindowShouldClose(win) /\ tally.frames = 0
             \/ <<Phase, Phase'>> = <<"Uninitialized", "Killed">>
          /\ Phase \in {"Running", "ShuttingDown", "Terminated"} => InitMade' = InitMade
          /\ Rank(pc') < Rank(pc) => Phase = "Running" /\ Phase' = "Running"]_vars

\* A run that went through all five states: two frames, then a normal return.
C7_Witness ==
    pc = "returned" /\ tally.presents = 2 /\ out.exit = {ExitOK}

\* The loop has been left by a poll that returned true.
LoopExited ==
    \/ pc \in {"main:231", "main:232", "main:233", "main:234", "main:235", "main:237",
               "main:238", "main:239"}
    \/ pc = "returned" /\ tally.shaderOK = "ok"

FrameCounts == <<tally.polls, tally.frames, tally.clears, tally.draws, tally.presents,
                 win.swaps>>

\* C8: every frame is preceded by exactly one poll, which returned false; the
\* first poll that returns true is the last one and ends the loop; after it nothing
\* is cleared, drawn or presented, and main returns 0.  If a close request
\* eventually arrives, an initialised run eventually returns with status 0.
C8_PollOncePerFrameThenExit ==
    /\ [](/\ tally.polls = Len(tally.pollResults)
          /\ \A i \in DOMAIN tally.pollResults :
                IF i <= tally.frames
                THEN tally.pollResults[i] = FALSE
                ELSE tally.pollResults[i] = TRUE /\ i = tally.frames + 1 /\ LoopExited
          /\ pc = "main:173" =>
                /\ tally.polls = tally.frames /\ tally.presents = tally.frames
                /\ tally.clears = tally.frames /\ win.swaps = tally.frames
          /\ pc \in FramePcs =>
                /\ tally.polls = tally.frames /\ tally.presents = tally.frames - 1
                /\ tally.clears = tally.frames - (IF pc = "main:175" THEN 1 ELSE 0)
          /\ LoopExited =>
                /\ tally.polls = tally.frames + 1 /\ tally.presents = tally.frames
                /\ tally.clears = tally.frames /\ tally.draws = 5 * tally.frames
                /\ win.swaps = tally.frames
          /\ pc = "returned" /\ tally.shaderOK = "ok" => out.exit = {0})
    /\ [][LoopExited => LoopExited' /\ FrameCounts' = FrameCounts]_vars
    /\ (<>WindowShouldClose(win)) =>
          (Phase = "Initialized" ~> (pc = "returned" /\ out.exit = {0}))

\* A run that rendered two frames, saw the close request and returned 0.
C8_Witness ==
    /\ pc = "returned" /\ out.exit = {0}
    /\ tally.pollResults = <<FALSE, FALSE, TRUE>> /\ tally.presents = 2

\* Close was requested before the first frame: no frame, status 0.
C8_WitnessNoFrame ==
    pc = "returned" /\ out.exit = {0} /\ tally.pollResults = <<TRUE>> /\ tally.clears = 0

\* C9: in every frame the angle uniform and the time uniform both hold that
\* frame's time sample t = (float)glfwGetTime(), never a wrapped value, and between
\* any two frames a greater t gives a strictly greater angle.
C9_AngleIsTimeSample ==
    /\ \A i \in DOMAIN tally.samples :
          LET s == tally.samples[i]
          IN  /\ s.t = FloatCast(s.clock) /\ s.t >= 0
              /\ s.time = s.t
              /\ s.angle = s.t
    /\ \A i, j \in DOMAIN tally.samples :
          tally.samples[j].t > tally.samples[i].t
              => tally.samples[j].angle > tally.samples[i].angle
    /\ pc = "main:225" => gl.uniform["angle"] = locals.t /\ gl.uniform["time"] = locals.t

\* Two frames with t2 > t1, the later one past a full turn of the wrapped variant.
C9_Witness ==
    /\ Len(tally.samples) >= 2
    /\ tally.samples[2].t > tally.samples[1].t
    /\ tally.samples[2].t >= 4
    /\ tally.samples[2].angle > tally.samples[1].angle

\* Rounding to float: two frames at different clock readings with the same sample.
C9_RoundingMergesSamples ==
    \E i, j \in DOMAIN tally.samples :
        /\ tally.samples[i].clock < tally.samples[j].clock
        /\ tally.samples[i].t = tally.samples[j].t

\* The step of a frame that call i of the log belongs to: 1 + the draws before it.
StepOf(log, i) == 1 + Cardinality({j \in 1..(i - 1) : IsDraw(log[j])})
\* The uniform a glUniform* call writes, by the location it is given.
UniformOf(e) == UniformNames[e.arg + 1]
UniformWrites(log) == {i \in DOMAIN log : IsUniformWrite(log[i])}
\* The data main uploads, by the name of the buffer that receives it.
Uploaded == <<white, rainbow, pulsing, translating, rotating>>

\* C10: in a frame the time uniform is written once, before anything else is
\* written or drawn; each step writes mode once, with its own tag; steps 1 to 3
\* write nothing else; offset is written only in step 4, with y = 0; angle and
\* center only in step 5, center being (0, -0.68); nothing is written after the
\* fifth draw.  A frame makes no call that creates, fills, describes or deletes a
\* buffer, and the buffers hold what was uploaded at start-up, uploaded once.
C10_UniformsByOwningStep ==
    /\ gl.uploads = gl.vboGen /\ gl.vboGen <= 5 /\ gl.vaoGen <= 5
    /\ \A n \in DOMAIN gl.vboData : gl.vboData[n] = Uploaded[n]
    /\ InLoop => gl.uploads = 5 /\ Cardinality(gl.attribs) = 10
    /\ (pc \in FramePcs \ {"main:175"} \/ (pc = "main:173" /\ tally.frames > 0)) =>
        LET log == gl.log
            w == UniformWrites(log)
            timeWrites == {i \in w : UniformOf(log[i]) = "time"}
        IN  /\ Cardinality(timeWrites) = 1
            /\ \A i \in timeWrites :
                  /\ log[i].val = locals.t
                  /\ \A j \in 1..i : ~IsDraw(log[j])
                  /\ \A j \in w : i <= j
            /\ \A k \in 1..Len(Draws(log)) :
                  Cardinality({i \in w : StepOf(log, i) = k
                                         /\ UniformOf(log[i]) = "mode"}) = 1
            /\ \A i \in w \ timeWrites :
                  LET u == UniformOf(log[i])
                      k == StepOf(log, i)
                  IN  /\ k <= 5
                      /\ u = "mode" => log[i].val = RenderModeTag[k]
                      /\ k \in {1, 2, 3} => u = "mode"
                      /\ u = "offset" => k = 4 /\ log[i].val[2] = 0
                      /\ k = 4 => u \in {"mode", "offset"}
                      /\ u \in {"angle", "center"} => k = 5
                      /\ u = "center" => log[i].val = <<CenterX, CenterY>>
                      /\ k = 5 => u \in {"mode", "angle", "center"}
            /\ \A i \in DOMAIN log :
                  log[i].op \in {"glClearColor", "glClear", "glUseProgram",
                                 "glUniform1f", "glUniform1i", "glUniform2f",
                                 "glBindVertexArray", "glDrawArrays"}

\* A second frame has made all its writes and draws.
C10_Witness ==
    /\ pc = "main:225" /\ tally.frames = 2
    /\ Cardinality(UniformWrites(gl.log)) = 9

====
